---- MODULE Spec2Model ----
(***************************************************************************)
(* A model of pubgo/redant: command resolution, flag-set merging, flag     *)
(* parsing, required-option validation and middleware dispatch of          *)
(* Invocation.Run (command.go), the option flag-set builder                *)
(* (OptionSet.FlagSet) and the middleware combinator Chain.                *)
(*                                                                         *)
(* Strings are sequences of atoms.  The atoms "-", "=", ":", "," and " "   *)
(* are the punctuation the code looks for; every other atom is a word      *)
(* without punctuation.  "--port=9090" is <<"-","-","port","=","9090">>.   *)
(***************************************************************************)
EXTENDS Integers, Sequences, FiniteSets, TLC

\* ------------------------------------------------------------------ bounds
MaxArgs == 3
MaxChain == 4

\* the largest start and end of RequireRangeArgs
MaxRange == 3

\* ------------------------------------------------------------- strings
Empty == <<>>

W(a) == <<a>>

Long(n) == <<"-", "-", n>>

LongEq(n, v) == <<"-", "-", n, "=", v>>

Colon(a, b) == <<a, ":", b>>

\* strings.HasPrefix(s, a) for a one-atom prefix
HasPrefix(s, a) == Len(s) > 0 /\ s[1] = a

\* strings.Contains(s, a) for a one-atom needle
Contains(s, a) == \E i \in 1..Len(s) : s[i] = a

\* index of the first occurrence of atom a in s, 0 when absent
IndexOf(s, a) ==
  IF Contains(s, a) THEN CHOOSE i \in 1..Len(s) : s[i] = a /\ \A j \in 1..(i-1) : s[j] # a
  ELSE 0

RECURSIVE Split(_, _)
\* strings.Split(s, sep): always at least one part
Split(s, sep) ==
  LET i == IndexOf(s, sep) IN
  IF i = 0 THEN <<s>>
  ELSE <<SubSeq(s, 1, i-1)>> \o Split(SubSeq(s, i+1, Len(s)), sep)

RECURSIVE Join(_, _)
\* strings.Join(parts, sep)
Join(parts, sep) ==
  IF Len(parts) = 0 THEN Empty
  ELSE IF Len(parts) = 1 THEN parts[1]
  ELSE parts[1] \o <<sep>> \o Join(Tail(parts), sep)

\* the atoms in ascending string order, for the sorts of Command.init
Lex ==
  <<"app", "child", "child-flag", "config-file", "debug", "env-file", "env-files",
    "environment", "grand", "help", "list-commands", "list-flags", "log-level",
    "name", "oth", "other", "parent", "parent-flag", "port", "region", "token", "version">>

Rank(a) == IF \E i \in 1..Len(Lex) : Lex[i] = a
           THEN CHOOSE i \in 1..Len(Lex) : Lex[i] = a
           ELSE 0

\* ascendingSortFn(a, b) on one-atom names ("" sorts first)
ascendingSortFn(a, b) ==
  IF Rank(a) < Rank(b) THEN -1 ELSE IF Rank(a) = Rank(b) THEN 0 ELSE 1

RECURSIVE SeqsUpTo(_, _)
SeqsUpTo(S, n) ==
  IF n = 0 THEN {<<>>}
  ELSE LET shorter == SeqsUpTo(S, n-1) IN
       shorter \cup {Append(s, x) : s \in {t \in shorter : Len(t) = n-1}, x \in S}

Reverse(s) == [i \in 1..Len(s) |-> s[Len(s) + 1 - i]]

\* ------------------------------------------------------------- values
\* A Value is a pointer to a typed cell; vals maps cells to their contents.
NilValue == [cell |-> <<"nil">>, typ |-> "nil"]

ValueOf(cell, typ) == [cell |-> cell, typ |-> typ]

NumVal == [a \in {"5", "7", "8080", "9090"} |->
             IF a = "5" THEN 5 ELSE IF a = "7" THEN 7 ELSE IF a = "8080" THEN 8080 ELSE 9090]

ZeroOf(typ) ==
  CASE typ = "int64" -> 0
    [] typ = "bool" -> FALSE
    [] OTHER -> Empty

\* Value.Set(raw) on a cell of type typ holding cur: [ok, val]
SetValue(typ, cur, raw) ==
  CASE typ = "string" -> [ok |-> TRUE, val |-> raw]
    [] typ = "int64" ->
         IF Len(raw) = 1 /\ raw[1] \in DOMAIN NumVal
           THEN [ok |-> TRUE, val |-> NumVal[raw[1]]]
         ELSE IF Len(raw) = 2 /\ raw[1] = "-" /\ raw[2] \in DOMAIN NumVal
           THEN [ok |-> TRUE, val |-> 0 - NumVal[raw[2]]]
         ELSE [ok |-> FALSE, val |-> cur]
    [] typ = "bool" ->
         IF raw \in {<<"true">>, <<"1">>} THEN [ok |-> TRUE, val |-> TRUE]
         ELSE IF raw \in {<<"false">>, <<"0">>, Empty} THEN [ok |-> TRUE, val |-> FALSE]
         ELSE [ok |-> FALSE, val |-> cur]
    [] typ = "stringArray" -> [ok |-> TRUE, val |-> cur \o Split(raw, ",")]
    [] OTHER -> [ok |-> TRUE, val |-> cur]

\* NoOptDefValuer: only bool values accept a bare flag
NoOptDefValue(value) == IF value.typ = "bool" THEN <<"true">> ELSE Empty

\* ------------------------------------------------------------- options
Opt(flag, short, value) ==
  [Flag |-> flag, Shorthand |-> short, Required |-> FALSE, Envs |-> <<>>,
   Default |-> Empty, Value |-> value, Hidden |-> FALSE]

GlobalCell(flag) == <<"global", flag>>

GlobalFlags ==
  << Opt("help", "h", ValueOf(GlobalCell("help"), "bool")),
     Opt("version", "v", ValueOf(GlobalCell("version"), "bool")),
     Opt("list-commands", "", ValueOf(GlobalCell("list-commands"), "bool")),
     Opt("list-flags", "", ValueOf(GlobalCell("list-flags"), "bool")),
     Opt("config-file", "c", ValueOf(GlobalCell("config-file"), "string")),
     Opt("debug", "", ValueOf(GlobalCell("debug"), "bool")),
     [Opt("log-level", "", ValueOf(GlobalCell("log-level"), "string")) EXCEPT !.Default = <<"info">>],
     Opt("environment", "e", ValueOf(GlobalCell("environment"), "string")),
     Opt("env-file", "", ValueOf(GlobalCell("env-file"), "string")),
     Opt("env-files", "", ValueOf(GlobalCell("env-files"), "stringArray")) >>

\* ------------------------------------------------------------- flag sets
\* A pflag.FlagSet is its map formal: flag name -> flag.
NewFlagSet == <<>>

Lookup(fs, name) == name \in DOMAIN fs

FlagOf(opt) ==
  LET val == IF opt.Value = NilValue THEN [cell |-> <<"nil">>, typ |-> "discard"] ELSE opt.Value IN
  [Name |-> opt.Flag, Shorthand |-> opt.Shorthand, Value |-> val, DefValue |-> opt.Default,
   Changed |-> FALSE, NoOptDefVal |-> NoOptDefValue(opt.Value), Hidden |-> opt.Hidden]

\* pflag AddFlag: panics on a redefined name or shorthand
AddFlagPanics(fs, flag) ==
  \/ flag.Name \in DOMAIN fs
  \/ flag.Shorthand # "" /\ \E n \in DOMAIN fs : fs[n].Shorthand = flag.Shorthand

AddFlag(fs, flag) == fs @@ (flag.Name :> flag)

RECURSIVE EnvScan(_, _, _, _, _)
\* the inner loop of the environment overlay: [hit, val]
EnvScan(envs, i, typ, cur, env) ==
  IF i > Len(envs) THEN [hit |-> FALSE, val |-> cur]
  ELSE LET envValue == env[envs[i]]
           r == SetValue(typ, cur, envValue)
       IN IF envValue # Empty /\ r.ok THEN [hit |-> TRUE, val |-> r.val]
          ELSE EnvScan(envs, i + 1, typ, cur, env)

RECURSIVE FlagSetAdd(_, _, _)
FlagSetAdd(optSet, i, acc) ==
  IF i > Len(optSet) \/ acc.panic THEN acc
  ELSE LET opt == optSet[i] IN
       IF opt.Flag = "" THEN FlagSetAdd(optSet, i + 1, acc)
       ELSE IF AddFlagPanics(acc.fs, FlagOf(opt))
         THEN [acc EXCEPT !.panic = TRUE]
       ELSE FlagSetAdd(optSet, i + 1, [acc EXCEPT !.fs = AddFlag(acc.fs, FlagOf(opt))])

RECURSIVE FlagSetEnv(_, _, _, _)
FlagSetEnv(optSet, i, acc, env) ==
  IF i > Len(optSet) THEN acc
  ELSE LET opt == optSet[i] IN
       IF opt.Flag = "" \/ opt.Value = NilValue THEN FlagSetEnv(optSet, i + 1, acc, env)
       ELSE LET r == EnvScan(opt.Envs, 1, opt.Value.typ, acc.vals[opt.Value.cell], env) IN
            IF r.hit
              THEN FlagSetEnv(optSet, i + 1,
                     [acc EXCEPT !.vals[opt.Value.cell] = r.val,
                                 !.fs[opt.Flag].Changed = TRUE], env)
            ELSE FlagSetEnv(optSet, i + 1, acc, env)

\* OptionSet.FlagSet: [panic, fs, vals]
FlagSet(optSet, vals, env) ==
  LET added == FlagSetAdd(optSet, 1, [panic |-> FALSE, fs |-> NewFlagSet, vals |-> vals]) IN
  IF added.panic THEN added ELSE FlagSetEnv(optSet, 1, added, env)

\* copyFlagSetWithout(fs, without)
copyFlagSetWithout(fs, without) == [n \in (DOMAIN fs) \ {without} |-> fs[n]]

\* FlagSet.GetBool(name): TRUE only for a defined bool flag holding true
GetBool(fs, vals, name) ==
  /\ Lookup(fs, name)
  /\ fs[name].Value.typ = "bool"
  /\ vals[fs[name].Value.cell] = TRUE

\* ------------------------------------------------------------- pflag Parse
\* FlagSet.Set(name, value) as called by the parser: [ok, fs, vals]
FlagSetSet(fs, vals, name, value) ==
  LET flag == fs[name]
      r == IF flag.Value.typ = "discard" THEN [ok |-> TRUE, val |-> Empty]
           ELSE SetValue(flag.Value.typ, vals[flag.Value.cell], value)
  IN IF ~r.ok THEN [ok |-> FALSE, fs |-> fs, vals |-> vals]
     ELSE [ok |-> TRUE,
           fs |-> [fs EXCEPT ![name].Changed = TRUE],
           vals |-> IF flag.Value.typ = "discard" THEN vals
                    ELSE [vals EXCEPT ![flag.Value.cell] = r.val]]

\* parseLongArg: [fs, vals, rest, err]
parseLongArg(fs, vals, s, a) ==
  LET name0 == SubSeq(s, 3, Len(s))
      i == IndexOf(name0, "=")
      name == IF i = 0 THEN name0 ELSE SubSeq(name0, 1, i - 1)
      exists == Len(name) = 1 /\ Lookup(fs, name[1])
  IN IF name0[1] = "-" \/ name0[1] = "="
       THEN [fs |-> fs, vals |-> vals, rest |-> a, err |-> "bad flag syntax"]
     ELSE IF ~exists
       THEN [fs |-> fs, vals |-> vals, rest |-> a,
             err |-> IF name = <<"help">> THEN "ErrHelp" ELSE "unknown flag"]
     ELSE LET flag == fs[name[1]]
              needs == i = 0 /\ flag.NoOptDefVal = Empty
              value == IF i # 0 THEN SubSeq(name0, i + 1, Len(name0))
                       ELSE IF flag.NoOptDefVal # Empty THEN flag.NoOptDefVal
                       ELSE IF Len(a) > 0 THEN a[1] ELSE Empty
              rest == IF needs /\ Len(a) > 0 THEN Tail(a) ELSE a
              r == FlagSetSet(fs, vals, name[1], value)
          IN IF needs /\ Len(a) = 0
               THEN [fs |-> fs, vals |-> vals, rest |-> a, err |-> "flag needs an argument"]
             ELSE [fs |-> r.fs, vals |-> r.vals, rest |-> rest,
                   err |-> IF r.ok THEN "nil" ELSE "invalid argument"]

ShortFlag(fs, c) == {n \in DOMAIN fs : fs[n].Shorthand = c}

RECURSIVE parseShortArg(_, _, _, _)
\* parseShortArg over the shorthands left in one "-abc" token: [fs, vals, rest, err]
parseShortArg(fs, vals, shorthands, a) ==
  IF Len(shorthands) = 0 THEN [fs |-> fs, vals |-> vals, rest |-> a, err |-> "nil"]
  ELSE LET c == shorthands[1] IN
       IF ShortFlag(fs, c) = {}
         THEN [fs |-> fs, vals |-> vals, rest |-> a,
               err |-> IF c = "h" THEN "ErrHelp" ELSE "unknown shorthand flag"]
       ELSE LET name == CHOOSE n \in ShortFlag(fs, c) : TRUE
                flag == fs[name]
                inline == Len(shorthands) > 2 /\ shorthands[2] = "="
                bare == ~inline /\ flag.NoOptDefVal # Empty
                glued == ~inline /\ ~bare /\ Len(shorthands) > 1
                next == ~inline /\ ~bare /\ ~glued
                value == IF inline THEN SubSeq(shorthands, 3, Len(shorthands))
                         ELSE IF bare THEN flag.NoOptDefVal
                         ELSE IF glued THEN Tail(shorthands)
                         ELSE IF Len(a) > 0 THEN a[1] ELSE Empty
                outShorts == IF inline \/ glued THEN Empty ELSE Tail(shorthands)
                outArgs == IF next /\ Len(a) > 0 THEN Tail(a) ELSE a
                r == FlagSetSet(fs, vals, name, value)
            IN IF next /\ Len(a) = 0
                 THEN [fs |-> fs, vals |-> vals, rest |-> a, err |-> "flag needs an argument"]
               ELSE IF ~r.ok
                 THEN [fs |-> fs, vals |-> vals, rest |-> outArgs, err |-> "invalid argument"]
               ELSE parseShortArg(r.fs, r.vals, outShorts, outArgs)

RECURSIVE parseArgs(_, _, _, _)
\* FlagSet.parseArgs with interspersed arguments: [fs, vals, args, err]
parseArgs(fs, vals, args, pos) ==
  IF Len(args) = 0 THEN [fs |-> fs, vals |-> vals, args |-> pos, err |-> "nil"]
  ELSE LET s == Head(args)
           rest == Tail(args)
       IN IF Len(s) = 0 \/ s[1] # "-" \/ Len(s) = 1
            THEN parseArgs(fs, vals, rest, Append(pos, s))
          ELSE IF s[2] = "-" /\ Len(s) = 2
            THEN [fs |-> fs, vals |-> vals, args |-> pos \o rest, err |-> "nil"]
          ELSE LET r == IF s[2] = "-" THEN parseLongArg(fs, vals, s, rest)
                        ELSE parseShortArg(fs, vals, Tail(s), rest)
               IN IF r.err # "nil"
                    THEN [fs |-> r.fs, vals |-> r.vals, args |-> pos, err |-> r.err]
                  ELSE parseArgs(r.fs, r.vals, r.rest, pos)

\* FlagSet.Parse(arguments): Args() afterwards is the field args
Parse(fs, vals, arguments) == parseArgs(fs, vals, arguments, <<>>)

\* ------------------------------------------------------------- middleware
\* A HandlerFunc is the handler of a command wrapped in middleware layers,
\* outermost first.  A MiddlewareFunc is a single middleware or the closure
\* returned by Chain, which holds the reversed list.
NilMw == [kind |-> "nil"]

Mw(id) == [kind |-> "mw", id |-> id]

HandlerOf(c) == [mws |-> <<>>, h |-> c]

RECURSIVE chain(_, _)
RECURSIVE ApplyMw(_, _)
\* chain(ms...)(next)
chain(ms, next) ==
  IF Len(ms) > 0 THEN chain(Tail(ms), ApplyMw(ms[1], next)) ELSE next

\* mw(next) for a MiddlewareFunc value
ApplyMw(mw, next) ==
  IF mw.kind = "mw" THEN [next EXCEPT !.mws = <<mw.id>> \o @]
  ELSE chain(mw.ms, next)

ChainNoReverse(ms) == [kind |-> "chain", ms |-> ms]

\* Chain(ms...)
Chain(ms) == [kind |-> "chain", ms |-> Reverse(ms)]

RECURSIVE Call(_)
\* calling a HandlerFunc: each middleware logs before, calls next, logs after
Call(h) ==
  IF Len(h.mws) = 0 THEN << <<"handler", h.h>> >>
  ELSE << <<h.mws[1], "before">> >> \o Call([h EXCEPT !.mws = Tail(@)])
         \o << <<h.mws[1], "after">> >>

\* ------------------------------------------------------------- commands
Nodes == {"r", "p", "c", "g", "o", "d"}

NoCmd == "nil"

Cmd(use, children, options, mw) ==
  [parent |-> NoCmd, Children |-> children, Use |-> use, Aliases |-> <<>>,
   Deprecated |-> Empty, RawArgs |-> FALSE, Options |-> options, Args |-> <<>>,
   Middleware |-> mw, Handler |-> TRUE]

\* an Arg of a command's ArgSet
Arg(name, required, default, value) ==
  [Name |-> name, Required |-> required, Default |-> default, Value |-> value]

\* Command.Name
Name(cmd) == Split(cmd.Use, " ")[1]

RECURSIVE FullName(_, _)
\* Command.FullName
FullName(tree, c) ==
  IF tree[c].parent # NoCmd
    THEN FullName(tree, tree[c].parent) \o <<" ">> \o Name(tree[c])
  ELSE Name(tree[c])

RECURSIVE Root(_, _)
Root(tree, c) == IF tree[c].parent # NoCmd THEN Root(tree, tree[c].parent) ELSE c

\* Command.GetGlobalFlags
GetGlobalFlags(tree, c) ==
  SelectSeq(tree[Root(tree, c)].Options, LAMBDA opt : opt.Flag # "" /\ ~opt.Hidden)

\* Command.children: name -> child, a later child of the same name wins
children(tree, c) ==
  LET ch == tree[c].Children
      names == {Name(tree[ch[i]]) : i \in 1..Len(ch)}
  IN [n \in names |->
        ch[CHOOSE i \in 1..Len(ch) :
              /\ Name(tree[ch[i]]) = n
              /\ \A j \in (i+1)..Len(ch) : Name(tree[ch[j]]) # n]]

\* the name an option is sorted and reported by
OptName(opt) == IF opt.Flag = "" /\ Len(opt.Envs) > 0 THEN opt.Envs[1] ELSE opt.Flag

\* the name a command is sorted by
NameAtom(cmd) == IF Len(Name(cmd)) = 0 THEN "" ELSE Name(cmd)[1]

RECURSIVE InitChildren(_, _, _)
RECURSIVE cmdInit(_, _)
\* Command.init: [tree, err]
cmdInit(tree, c) ==
  LET cmd == tree[c]
      use == IF cmd.Use = Empty THEN <<"unnamed">> ELSE cmd.Use
      opts == IF cmd.parent = NoCmd THEN cmd.Options \o GlobalFlags ELSE cmd.Options
      bad == \E i \in 1..Len(opts) : opts[i].Flag = "" /\ Len(opts[i].Envs) = 0
      sortedOpts == SortSeq(opts, LAMBDA a, b : ascendingSortFn(OptName(a), OptName(b)) < 0)
      sortedCh == SortSeq(cmd.Children,
                          LAMBDA a, b : ascendingSortFn(NameAtom(tree[a]), NameAtom(tree[b])) < 0)
      t1 == [tree EXCEPT ![c].Use = use, ![c].Options = sortedOpts, ![c].Children = sortedCh]
      r == InitChildren(t1, c, 1)
  IN [tree |-> r.tree, err |-> bad \/ r.err]

InitChildren(tree, c, i) ==
  IF i > Len(tree[c].Children) THEN [tree |-> tree, err |-> FALSE]
  ELSE LET child == tree[c].Children[i]
           r == cmdInit([tree EXCEPT ![child].parent = c], child)
           rest == InitChildren(r.tree, c, i + 1)
       IN [tree |-> rest.tree, err |-> r.err \/ rest.err]

RECURSIVE setParentCommand(_, _, _)
\* Invocation.setParentCommand(parent, children)
setParentCommand(tree, parent, chs) ==
  IF Len(chs) = 0 THEN tree
  ELSE LET child == Head(chs)
           t1 == [tree EXCEPT ![child].parent = parent]
           t2 == setParentCommand(t1, child, t1[child].Children)
       IN setParentCommand(t2, parent, Tail(chs))

RECURSIVE getCommands(_, _, _)
RECURSIVE MergeCommands(_, _, _, _)
\* getCommands(cmd, parentName): [panic, map], map from path key to command
getCommands(tree, c, parentName) ==
  LET name == IF parentName = Empty THEN Name(tree[c])
              ELSE parentName \o <<":">> \o Name(tree[c])
  IN MergeCommands(tree, tree[c].Children, name, [panic |-> FALSE, map |-> (name :> c)])

MergeCommands(tree, chs, name, acc) ==
  IF Len(chs) = 0 \/ acc.panic THEN acc
  ELSE LET sub == getCommands(tree, Head(chs), name) IN
       IF sub.panic \/ (DOMAIN sub.map) \cap (DOMAIN acc.map) # {}
         THEN [acc EXCEPT !.panic = TRUE]
       ELSE MergeCommands(tree, Tail(chs), name, [acc EXCEPT !.map = @ @@ sub.map])

\* the child of cmd whose Name is part, or NoCmd (first match in Children order)
ChildNamed(tree, c, part) ==
  LET ch == tree[c].Children
      hits == {i \in 1..Len(ch) : Name(tree[ch[i]]) = part}
  IN IF hits = {} THEN NoCmd ELSE ch[CHOOSE i \in hits : \A j \in hits : i <= j]

RECURSIVE WalkParts(_, _, _)
\* the colon-path walk of getExecCommand: the command reached, or NoCmd
WalkParts(tree, c, parts) ==
  IF Len(parts) = 0 THEN c
  ELSE LET child == ChildNamed(tree, c, Head(parts)) IN
       IF child = NoCmd THEN NoCmd ELSE WalkParts(tree, child, Tail(parts))

RECURSIVE WalkArgs(_, _, _, _, _)
WalkArgsConsumeMiss(tree, c, args, i, consumed) ==
  IF i > Len(args) THEN <<c, consumed>>
  ELSE LET child == ChildNamed(tree, c, args[i]) IN
       IF child = NoCmd THEN <<c, i>>
       ELSE WalkArgs(tree, child, args, i + 1, i)

WalkArgsOffByOne(tree, c, args, i, consumed) ==
  IF i > Len(args) THEN <<c, consumed>>
  ELSE LET child == ChildNamed(tree, c, args[i]) IN
       IF child = NoCmd THEN <<c, consumed>>
       ELSE WalkArgs(tree, child, args, i + 1, i + 1)

\* the space-path walk of getExecCommand: <<command, consumed>>
WalkArgs(tree, c, args, i, consumed) ==
  IF i > Len(args) THEN <<c, consumed>>
  ELSE LET child == ChildNamed(tree, c, args[i]) IN
       IF child = NoCmd THEN <<c, consumed>>
       ELSE WalkArgs(tree, child, args, i + 1, i)

\* the tokens before the first flag or '=' token
CommandPrefix(args) ==
  LET stops == {i \in 1..Len(args) : HasPrefix(args[i], "-") \/ Contains(args[i], "=")}
  IN IF stops = {} THEN args
     ELSE SubSeq(args, 1, (CHOOSE i \in stops : \A j \in stops : i <= j) - 1)

\* getExecCommand(parentCmd, commands, args): <<command, consumed>>
getExecCommand(tree, parentCmd, commands, args0) ==
  LET args == CommandPrefix(args0) IN
  IF Len(args) = 0 THEN <<parentCmd, 0>>
  ELSE IF args[1] \in DOMAIN commands THEN <<commands[args[1]], 1>>
  ELSE IF Contains(args[1], ":")
    THEN LET cmd == WalkParts(tree, parentCmd, Split(args[1], ":")) IN
         IF cmd = NoCmd THEN <<parentCmd, 0>> ELSE <<cmd, 1>>
  ELSE WalkArgs(tree, parentCmd, args, 1, 0)

\* ------------------------------------------------------------- Invocation.run
\* A machine state m is the record of the variables declared below.

Panic(m) == [m EXCEPT !.pc = "done", !.err = "panic"]

Return(m, e) == [m EXCEPT !.pc = "done", !.err = e]

FlagNames(fs) == SelectSeq(Lex, LAMBDA a : a \in DOMAIN fs)

RECURSIVE AddMissing(_, _, _)
\* globalFlagSet.VisitAll: add the flags inv.Flags does not have
AddMissing(names, from, acc) ==
  IF Len(names) = 0 \/ acc.panic THEN acc
  ELSE IF Lookup(acc.fs, Head(names)) THEN AddMissing(Tail(names), from, acc)
  ELSE IF AddFlagPanics(acc.fs, from[Head(names)]) THEN [acc EXCEPT !.panic = TRUE]
  ELSE AddMissing(Tail(names), from, [acc EXCEPT !.fs = AddFlag(@, from[Head(names)])])

RECURSIVE Override(_, _, _)
\* the command's own flags replace same-named flags of inv.Flags
Override(names, from, acc) ==
  IF Len(names) = 0 \/ acc.panic THEN acc
  ELSE IF AddFlagPanics(copyFlagSetWithout(acc.fs, Head(names)), from[Head(names)])
    THEN [acc EXCEPT !.panic = TRUE]
  ELSE Override(Tail(names), from,
         [acc EXCEPT !.fs = AddFlag(copyFlagSetWithout(@, Head(names)), from[Head(names)])])

\* run, lines 456-463: the global flags inv.Flags lacks are added: [panic, fs, vals]
AddGlobalFlags(flags, g) ==
  IF g.panic THEN [panic |-> TRUE, fs |-> flags, vals |-> g.vals]
  ELSE [AddMissing(FlagNames(g.fs), g.fs, [panic |-> FALSE, fs |-> flags, vals |-> g.vals])
          EXCEPT !.vals = g.vals]

\* run, lines 465-473: the command's own flags override: [panic, fs, vals]
AddOwnFlags(acc, own) ==
  IF acc.panic \/ own.panic THEN [acc EXCEPT !.panic = TRUE]
  ELSE [Override(FlagNames(own.fs), own.fs, acc) EXCEPT !.vals = own.vals]

MergeOwn(acc, opts, env) ==
  IF acc.panic THEN acc ELSE AddOwnFlags(acc, FlagSet(opts, acc.vals, env))

\* run, lines 449-473: the merged flag set of the command: [panic, fs, vals]
MergeFlags(flags, globalFlags, opts, vals, env) ==
  MergeOwn(AddGlobalFlags(flags, FlagSet(globalFlags, vals, env)), opts, env)

ConsumeNothing(allArgs, consumed) == allArgs

\* run, lines 445-447
Consume(allArgs, consumed) ==
  IF consumed > 0 /\ consumed <= Len(allArgs)
    THEN SubSeq(allArgs, consumed + 1, Len(allArgs))
  ELSE allArgs

resolveChildRaw(m) ==
  LET depth == m.state.commandDepth
      kids == children(m.tree, m.inv.Command)
      words == SelectSeq(m.state.allArgs, LAMBDA tok : ~HasPrefix(tok, "-"))
  IN IF Len(words) > depth /\ words[depth + 1] \in DOMAIN kids
       THEN [m EXCEPT !.tree[kids[words[depth + 1]]].parent = m.inv.Command,
                      !.inv.Command = kids[words[depth + 1]],
                      !.state.commandDepth = depth + 1, !.pc = "run"]
     ELSE [m EXCEPT !.pc = "collect"]

resolveChildAgain(m) ==
  LET depth == m.state.commandDepth
      kids == children(m.tree, m.inv.Command)
  IN IF Len(m.loc.parsedArgs) > depth /\ m.loc.parsedArgs[depth + 1] \in DOMAIN kids
       THEN [m EXCEPT !.pc = "run"]
     ELSE [m EXCEPT !.pc = "collect"]

\* run, lines 500-511: descend into the child named by the next positional
\* argument, or go on with this command
resolveChild(m) ==
  LET depth == m.state.commandDepth
      kids == children(m.tree, m.inv.Command)
  IN IF Len(m.loc.parsedArgs) > depth /\ m.loc.parsedArgs[depth + 1] \in DOMAIN kids
       THEN [m EXCEPT !.tree[kids[m.loc.parsedArgs[depth + 1]]].parent = m.inv.Command,
                      !.inv.Command = kids[m.loc.parsedArgs[depth + 1]],
                      !.state.commandDepth = depth + 1, !.pc = "run"]
     ELSE [m EXCEPT !.pc = "collect"]

\* run, lines 485-498: --list-commands and --list-flags return at once
resolveListingNoReturn(m) ==
  IF GetBool(m.inv.Flags, m.vals, "list-commands")
    THEN resolveChild([m EXCEPT !.stdout = Append(@, <<"commands", m.loc.parent>>)])
  ELSE IF GetBool(m.inv.Flags, m.vals, "list-flags")
    THEN resolveChild([m EXCEPT !.stdout = Append(@, <<"flags", m.loc.parent>>)])
  ELSE resolveChild(m)

\* run, lines 485-498: the listings return before anything else
resolveListing(m) ==
  IF GetBool(m.inv.Flags, m.vals, "list-commands")
    THEN Return([m EXCEPT !.stdout = Append(@, <<"commands", m.loc.parent>>)], "nil")
  ELSE IF GetBool(m.inv.Flags, m.vals, "list-flags")
    THEN Return([m EXCEPT !.stdout = Append(@, <<"flags", m.loc.parent>>)], "nil")
  ELSE resolveChild(m)

resolveParsed(m, parsed) ==
  resolveListing([m EXCEPT !.inv.Flags = parsed.fs, !.vals = parsed.vals,
                           !.state.flagParseErr = parsed.err,
                           !.loc.parsedArgs = parsed.args])

\* run, lines 475-483: parse the whole remaining argument list
resolveParse(m) ==
  IF m.tree[m.inv.Command].RawArgs THEN resolveListing([m EXCEPT !.loc.parsedArgs = <<>>])
  ELSE resolveParsed(m, Parse(m.inv.Flags, m.vals, m.state.allArgs))

resolveMerged(m, merged) ==
  IF merged.panic THEN Panic(m)
  ELSE resolveParse([m EXCEPT !.inv.Flags = merged.fs, !.vals = merged.vals])

\* run, lines 442-473
resolveExec(m, exec) ==
  resolveMerged([m EXCEPT !.inv.Command = exec[1], !.state.allArgs = Consume(@, exec[2])],
                MergeFlags(m.inv.Flags, GetGlobalFlags(m.tree, exec[1]),
                           m.tree[exec[1]].Options, m.vals, m.env))

resolveCommands(m, commands) ==
  IF commands.panic THEN Panic(m)
  ELSE resolveExec(m, getExecCommand(m.tree, m.inv.Command, commands.map, m.state.allArgs))

\* run, lines 431-437: the deprecation warning
Warn(m) ==
  IF m.tree[m.inv.Command].Deprecated # Empty
    THEN [m EXCEPT !.stderr = Append(@, <<"deprecated", FullName(m.tree, m.inv.Command)>>)]
  ELSE m

resolveWarned(m) == resolveCommands(m, getCommands(m.tree, m.inv.Command, Empty))

\* run, lines 427-511: resolve one level, merge the flag sets, parse, and
\* either return a listing, descend into a child or go on to the final command
runResolve(m) ==
  resolveWarned(Warn([m EXCEPT !.tree = setParentCommand(@, m.inv.Command,
                                                          m.tree[m.inv.Command].Children),
                               !.loc.parent = m.inv.Command]))

RECURSIVE Reclassify(_)
\* run, lines 516-543: every branch of the loop keeps the token
Reclassify(args) ==
  IF Len(args) = 0 THEN <<>>
  ELSE <<Head(args)>> \o Reclassify(Tail(args))

\* run, lines 513-563: collect the arguments, parse again, report a parse error
runCollect(m) ==
  LET cmd == m.tree[m.inv.Command]
      remainingArgs == Reclassify(m.state.allArgs)
      parsed == IF cmd.RawArgs
                  THEN [fs |-> m.inv.Flags, vals |-> m.vals, args |-> remainingArgs,
                        err |-> m.state.flagParseErr]
                ELSE Parse(m.inv.Flags, m.vals, remainingArgs)
      m1 == [m EXCEPT !.state.allArgs = remainingArgs, !.state.flagParseErr = parsed.err,
                      !.inv.Flags = parsed.fs, !.vals = parsed.vals,
                      !.loc.parsedArgs = parsed.args]
  IN IF ~cmd.RawArgs /\ parsed.err # "nil" /\ parsed.err # "ErrHelp"
       THEN Return(m1, "parsing flags")
     ELSE [m1 EXCEPT !.pc = "validate"]

\* run, lines 566-573
HelpRequested(fs, vals) == GetBool(fs, vals, "help") \/ GetBool(fs, vals, "h")

HasValueNoEnvs(fs, opt) ==
  \/ opt.Flag # "" /\ Lookup(fs, opt.Flag) /\ fs[opt.Flag].Changed
  \/ opt.Default # Empty

\* run, lines 587-606: a required option has a value source
HasValue(fs, opt) ==
  \/ opt.Flag # "" /\ Lookup(fs, opt.Flag) /\ fs[opt.Flag].Changed
  \/ opt.Default # Empty
  \/ Len(opt.Envs) > 0

\* run, lines 579-617: the names of the required options without a value
Missing(fs, opts) ==
  LET miss == SelectSeq(opts, LAMBDA opt : opt.Required /\ ~HasValue(fs, opt))
  IN [i \in 1..Len(miss) |-> OptName(miss[i])]

runValidateLate(m) ==
  [m EXCEPT !.loc.isHelpRequested = HelpRequested(m.inv.Flags, m.vals),
            !.loc.missing = Missing(m.inv.Flags, m.tree[m.inv.Command].Options),
            !.pc = "bind"]

\* run, lines 565-621: required-option validation unless help was requested
runValidate(m) ==
  LET cmd == m.tree[m.inv.Command]
      help == HelpRequested(m.inv.Flags, m.vals)
      missing == IF ~help /\ m.state.flagParseErr # "ErrHelp"
                   THEN Missing(m.inv.Flags, cmd.Options) ELSE <<>>
      m1 == [m EXCEPT !.loc.isHelpRequested = help, !.loc.missing = missing]
  IN IF Len(missing) > 0 THEN Return(m1, "missing values for the required flags")
     ELSE [m1 EXCEPT !.pc = "bind"]

RECURSIVE findArg(_, _, _, _)
\* findArg(want, args, fs) from index i: the index found, 0 for an error
findArg(want, args, fs, i) ==
  IF i > Len(args) THEN 0
  ELSE LET arg == args[i]
           nm == SelectSeq(arg, LAMBDA a : a # "-")
       IN IF ~HasPrefix(arg, "-") THEN (IF arg = want THEN i ELSE findArg(want, args, fs, i + 1))
          ELSE IF Contains(arg, "=") THEN findArg(want, args, fs, i + 1)
          ELSE IF ~(Len(nm) = 1 /\ Lookup(fs, nm[1])) THEN 0
          ELSE IF fs[nm[1]].NoOptDefVal # Empty THEN findArg(want, args, fs, i + 1)
          ELSE IF i = Len(args) THEN 0
          ELSE findArg(want, args, fs, i + 2)

\* the name an Arg is reported by: Name, or arg<i>
ArgName(argsDef, i) == IF argsDef[i].Name = "" THEN <<"arg", i>> ELSE <<argsDef[i].Name>>

\* ParseQueryArgs on a token with one key=value pair: <<key, value>>
ParseQueryArgs(query) ==
  <<SubSeq(query, 1, IndexOf(query, "=") - 1),
    SubSeq(query, IndexOf(query, "=") + 1, Len(query))>>

\* ParseJSONArgs on a token holding one object {"key":"value"}, or an array,
\* whose elements go under the empty key: <<key, value>>
ParseJSONArgs(jsonStr) ==
  IF jsonStr[1] = "{" THEN <<SubSeq(jsonStr, 2, 2), SubSeq(jsonStr, 4, Len(jsonStr) - 1)>>
  ELSE <<Empty, SubSeq(jsonStr, 2, Len(jsonStr) - 1)>>

\* parseAndSetArgs, lines 858-898: the branch a token is decoded in
Classify(argStr) ==
  IF Contains(argStr, "=") /\ ~HasPrefix(argStr, "-") THEN "query"
  ELSE IF \/ argStr[1] = "{" /\ argStr[Len(argStr)] = "}"
          \/ argStr[1] = "[" /\ argStr[Len(argStr)] = "]" THEN "json"
  ELSE "positional"

\* the key and the value a token decodes to in its branch
Decode(argStr) ==
  IF Classify(argStr) = "json" THEN ParseJSONArgs(argStr) ELSE ParseQueryArgs(argStr)

\* the Args whose Name is key and that have a Value (the j loop of parseAndSetArgs)
ArgsNamed(argsDef, key) ==
  {j \in 1..Len(argsDef) :
     /\ (IF argsDef[j].Name = "" THEN Empty ELSE <<argsDef[j].Name>>) = key
     /\ argsDef[j].Value # NilValue}

\* the Args a token sets by name: none for a positional token, and none for
\* a JSON token under the empty key
Matching(argsDef, argStr) ==
  IF Classify(argStr) = "positional" THEN {}
  ELSE IF Classify(argStr) = "json" /\ Decode(argStr)[1] = Empty THEN {}
  ELSE ArgsNamed(argsDef, Decode(argStr)[1])

\* Arg.Value.Set(raw) on the cells: [ok, vals]
SetArg(argDef, vals, raw) ==
  [ok |-> SetValue(argDef.Value.typ, vals[argDef.Value.cell], raw).ok,
   vals |-> [vals EXCEPT ![argDef.Value.cell] =
                           SetValue(argDef.Value.typ, vals[argDef.Value.cell], raw).val]]

ArgResult(e, name, vals) == [err |-> e, name |-> name, vals |-> vals]

RECURSIVE bindArgs(_, _, _, _, _)
\* the loop of parseAndSetArgs over argsDef from index i, argIndex the next
\* token (both counted from 1): [err, name, vals]
bindArgs(argsDef, args, i, argIndex, vals) ==
  IF i > Len(argsDef) THEN ArgResult("nil", Empty, vals)
  ELSE IF argIndex > Len(args)
    THEN IF argsDef[i].Required /\ argsDef[i].Default = Empty
           THEN ArgResult("required argument is missing", ArgName(argsDef, i), vals)
         ELSE IF argsDef[i].Default # Empty /\ argsDef[i].Value # NilValue
           THEN IF SetArg(argsDef[i], vals, argsDef[i].Default).ok
                  THEN bindArgs(argsDef, args, i + 1, argIndex,
                                SetArg(argsDef[i], vals, argsDef[i].Default).vals)
                ELSE ArgResult("setting default value", ArgName(argsDef, i),
                               SetArg(argsDef[i], vals, argsDef[i].Default).vals)
         ELSE bindArgs(argsDef, args, i + 1, argIndex, vals)
  ELSE IF Matching(argsDef, args[argIndex]) # {}
    THEN LET j == CHOOSE k \in Matching(argsDef, args[argIndex]) :
                    \A l \in Matching(argsDef, args[argIndex]) : k <= l
             r == SetArg(argsDef[j], vals, Decode(args[argIndex])[2])
         IN IF r.ok THEN bindArgs(argsDef, args, i + 1, argIndex + 1, r.vals)
            ELSE ArgResult("setting value for arg", Decode(args[argIndex])[1], r.vals)
  ELSE IF argsDef[i].Value = NilValue THEN bindArgs(argsDef, args, i + 1, argIndex + 1, vals)
  ELSE IF SetArg(argsDef[i], vals, args[argIndex]).ok
    THEN bindArgs(argsDef, args, i + 1, argIndex + 1, SetArg(argsDef[i], vals, args[argIndex]).vals)
  ELSE ArgResult("setting value for arg", ArgName(argsDef, i),
                 SetArg(argsDef[i], vals, args[argIndex]).vals)

\* parseAndSetArgs(argsDef, args): [err, name, vals]
parseAndSetArgs(argsDef, args, vals) == bindArgs(argsDef, args, 1, 1, vals)

\* run, lines 680-697: arg1..argN, each a fresh String value holding its token
autoArgs(args) ==
  [i \in 1..Len(args) |-> Arg(Empty, FALSE, Empty, ValueOf(<<"auto", i>>, "string"))]

bindAuto(m) ==
  IF Len(m.inv.Args) = 0 THEN [m EXCEPT !.pc = "dispatch"]
  ELSE [m EXCEPT !.tree[m.inv.Command].Args =
                    [i \in 1..Len(m.inv.Args) |->
                       [autoArgs(m.inv.Args)[i] EXCEPT !.Name = <<"arg", i>>]],
                 !.vals = [cl \in DOMAIN m.vals \cup {<<"auto", i>> : i \in 1..Len(m.inv.Args)} |->
                             IF cl \in {<<"auto", i>> : i \in 1..Len(m.inv.Args)}
                               THEN m.inv.Args[cl[2]] ELSE m.vals[cl]],
                 !.pc = "dispatch"]

bindParsed(m, r) ==
  IF r.err # "nil"
    THEN Return([m EXCEPT !.vals = r.vals, !.loc.argErr = r.name], "parsing args")
  ELSE [m EXCEPT !.vals = r.vals, !.pc = "dispatch"]

\* run, lines 673-698: bind the declared Args, or create arg1..argN
bindDeclared(m) ==
  IF /\ Len(m.tree[m.inv.Command].Args) > 0
     /\ ~m.loc.isHelpRequested
     /\ m.state.flagParseErr # "ErrHelp"
    THEN bindParsed(m, parseAndSetArgs(m.tree[m.inv.Command].Args, m.inv.Args, m.vals))
  ELSE bindAuto(m)

\* run, lines 655-698: inv.Args, then the Args of the command
runBind(m) ==
  LET cmd == m.tree[m.inv.Command]
      depth == m.state.commandDepth
      argPos == findArg(Name(cmd), m.state.allArgs, m.inv.Flags, 1)
  IN IF cmd.RawArgs
       THEN IF depth = 0 THEN bindDeclared([m EXCEPT !.inv.Args = m.state.allArgs])
            ELSE IF argPos = 0 THEN Panic(m)
            ELSE bindDeclared([m EXCEPT !.inv.Args = SubSeq(m.state.allArgs, argPos + 1,
                                                            Len(m.state.allArgs))])
     ELSE IF depth > Len(m.loc.parsedArgs) THEN Panic(m)
     ELSE bindDeclared([m EXCEPT !.inv.Args = SubSeq(m.loc.parsedArgs, depth + 1,
                                                     Len(m.loc.parsedArgs))])

RECURSIVE CollectMiddleware(_, _)
\* run, lines 704-711: from the command up to the root, nil skipped
CollectMiddleware(tree, c) ==
  IF c = NoCmd THEN <<>>
  ELSE (IF tree[c].Middleware # NilMw THEN <<tree[c].Middleware>> ELSE <<>>)
         \o CollectMiddleware(tree, tree[c].parent)

MiddlewareChainNoReverse(tree, c) == CollectMiddleware(tree, c)

\* run, lines 704-716: the collected middlewares, reversed to root first
MiddlewareChain(tree, c) == Reverse(CollectMiddleware(tree, c))

\* usageWantsArgRe.MatchString(use): the regular expression <.*>
usageWantsArgRe(use) ==
  \E i \in 1..Len(use) : \E j \in (i + 1)..Len(use) : use[i] = "<" /\ use[j] = ">"

DefaultHelpFnNonZero(m) ==
  Return([m EXCEPT !.stdout = Append(@, <<"help", m.inv.Command>>)], "unknown subcommand")

\* DefaultHelpFn
DefaultHelpFn(m) ==
  LET m1 == [m EXCEPT !.stdout = Append(@, <<"help", m.inv.Command>>)]
      m2 == IF Len(m.inv.Args) > 0 /\ ~usageWantsArgRe(m.tree[m.inv.Command].Use)
              THEN [m1 EXCEPT !.stderr = Append(@, <<"unknown subcommand", m.inv.Args[1]>>)]
            ELSE m1
  IN IF Len(m.inv.Args) > 0 THEN Return(m2, "unknown subcommand") ELSE Return(m2, "nil")

\* run, lines 700-753: help, or the handler inside the middleware chain
\* run, lines 699-753: help, or the handler inside the middleware chain
runDispatch(m) ==
  LET cmd == m.tree[m.inv.Command]
      mw == Chain(MiddlewareChain(m.tree, m.inv.Command))
  IN IF GetBool(m.inv.Flags, m.vals, "help") THEN DefaultHelpFn(m)
     ELSE IF ~cmd.Handler \/ m.state.flagParseErr = "ErrHelp" THEN DefaultHelpFn(m)
     ELSE Return([m EXCEPT !.log = @ \o Call(ApplyMw(mw, HandlerOf(m.inv.Command)))], "nil")

runInitIgnoreErr(m) ==
  LET root == m.inv.Command
      ch == m.tree[root].Children
      t1 == [n \in DOMAIN m.tree |->
               IF \E i \in 1..Len(ch) : ch[i] = n THEN [m.tree[n] EXCEPT !.parent = root]
               ELSE m.tree[n]]
      r == cmdInit(t1, root)
  IN [m EXCEPT !.tree = r.tree,
               !.state = [allArgs |-> m.inv.Args, commandDepth |-> 0, flagParseErr |-> "nil"],
               !.pc = "run"]

\* Run, lines 945-983, up to the call of run
runInit(m) ==
  LET root == m.inv.Command
      ch == m.tree[root].Children
      t1 == [n \in DOMAIN m.tree |->
               IF \E i \in 1..Len(ch) : ch[i] = n THEN [m.tree[n] EXCEPT !.parent = root]
               ELSE m.tree[n]]
      r == cmdInit(t1, root)
  IN IF r.err THEN Return([m EXCEPT !.tree = r.tree], "initializing command")
     ELSE [m EXCEPT !.tree = r.tree,
                    !.state = [allArgs |-> m.inv.Args, commandDepth |-> 0, flagParseErr |-> "nil"],
                    !.pc = "run"]

\* ------------------------------------------------------------- command trees
\* The trees the runs are checked on: app -> {parent -> child -> grand, other}.
\* A configuration chooses the attributes of the options under study
\* (port on other, region on the root) and the environment.
StudyOpt(flag, short, value, cfg) ==
  [Opt(flag, short, value) EXCEPT !.Required = cfg.req, !.Default = cfg.def, !.Envs = cfg.envs]

RootOptions(cfg) ==
  << Opt("name", "n", ValueOf(<<"r", "name">>, "string")),
     StudyOpt("region", "", ValueOf(<<"r", "region">>, "string"), cfg) >>

OtherOptions(cfg) ==
  << StudyOpt("port", "p", ValueOf(<<"o", "port">>, "int64"), cfg),
     Opt("name", "", ValueOf(<<"o", "name">>, "string")) >>
  \o (IF cfg.fam = "B"
        THEN << [Opt("token", "", ValueOf(<<"o", "token">>, "string")) EXCEPT !.Required = TRUE] >>
      ELSE <<>>)

\* the attributes a configuration may leave at their plain values: the node
\* without Handler, the deprecated node, other's Use with a placeholder, the
\* node with an option that has neither Flag nor Envs, the node with a second
\* child of the same name, other's Args, other's Aliases, the entry-point name
Plain ==
  [noH |-> NoCmd, dep |-> NoCmd, ph |-> FALSE, badOpt |-> NoCmd, dup |-> NoCmd,
   args |-> <<>>, aliases |-> <<>>, argv0 |-> ""]

BareTree(cfg) ==
  [n \in Nodes |->
     CASE n = "r" -> Cmd(<<"app">>, IF cfg.dup = "r" THEN <<"p", "o", "d">> ELSE <<"p", "o">>,
                         RootOptions(cfg), Mw("mw-app"))
       [] n = "p" -> Cmd(<<"parent">>, <<"c">>,
                         << Opt("parent-flag", "", ValueOf(<<"p", "parent-flag">>, "string")) >>,
                         IF cfg.mwP THEN Mw("mw-parent") ELSE NilMw)
       [] n = "c" -> Cmd(<<"child">>, IF cfg.dup = "c" THEN <<"g", "d">> ELSE <<"g">>,
                         << Opt("name", "", ValueOf(<<"c", "name">>, "string")),
                            Opt("child-flag", "", ValueOf(<<"c", "child-flag">>, "string")) >>,
                         Chain(<<Mw("mw-child1"), Mw("mw-child2")>>))
       [] n = "g" -> Cmd(<<"grand">>, <<>>, <<>>, Mw("mw-grand"))
       [] n = "o" -> [Cmd(IF cfg.ph THEN <<"other", " ", "<", "file", ">">> ELSE <<"other">>,
                          <<>>, OtherOptions(cfg), Mw("mw-other"))
                        EXCEPT !.Args = cfg.args, !.Aliases = cfg.aliases]
       [] n = "d" -> Cmd(IF cfg.dup = "c" THEN <<"grand">> ELSE <<"other">>, <<>>, <<>>, NilMw)]

Tree(cfg) ==
  [n \in Nodes |->
     [BareTree(cfg)[n] EXCEPT
        !.Handler = (n # cfg.noH),
        !.Deprecated = IF n = cfg.dep THEN <<"old">> ELSE Empty,
        !.Options = IF n = cfg.badOpt THEN @ \o <<Opt("", "", NilValue)>> ELSE @]]

EnvNames == {"E1", "E2"}

ConfigsA ==
  {[fam |-> "A", mwP |-> b, req |-> FALSE, def |-> Empty, envs |-> <<>>,
    env |-> [e \in EnvNames |-> Empty]] @@ Plain : b \in BOOLEAN}

ConfigsB ==
  {[fam |-> "B", mwP |-> TRUE, req |-> rq, def |-> d, envs |-> es,
    env |-> [e \in EnvNames |-> IF e = "E1" THEN e1 ELSE e2]] @@ Plain :
     rq \in BOOLEAN, d \in {Empty, <<"8080">>},
     es \in {<<>>, <<"E1">>, <<"E1", "E2">>},
     e1 \in {Empty, <<"5">>, <<"bad">>}, e2 \in {Empty, <<"7">>}}

\* the environment matters only through the names an option lists
Configs ==
  ConfigsA \cup
  {cfg \in ConfigsB : \A e \in EnvNames :
      (~\E i \in 1..Len(cfg.envs) : cfg.envs[i] = e) => cfg.env[e] = Empty}

TokensA ==
  {W("parent"), W("child"), W("grand"), W("other"), Colon("parent", "child"), W("x"),
   LongEq("parent-flag", "pv"), Long("name"), Long("debug")}

TokensB ==
  {W("other"), LongEq("port", "9090"), LongEq("region", "cli"), LongEq("token", "t")}

\* TestFlagInheritance
TestInputs ==
  { <<W("parent"), W("child"), Long("parent-flag"), W("pvalue"),
      Long("child-flag"), W("cvalue")>> }

Inputs(cfg) ==
  IF cfg.fam = "A" THEN SeqsUpTo(TokensA, MaxArgs) \cup TestInputs
  ELSE SeqsUpTo(TokensB, MaxArgs)

OptionsOf(t) == UNION {{t[n].Options[i] : i \in 1..Len(t[n].Options)} : n \in DOMAIN t}

ArgsOf(t) == UNION {{t[n].Args[i] : i \in 1..Len(t[n].Args)} : n \in DOMAIN t}

GlobalOptions == {GlobalFlags[i] : i \in 1..Len(GlobalFlags)}

\* every cell starts with the zero value of its type
ZeroVals(t) ==
  LET opts == OptionsOf(t) \cup GlobalOptions \cup ArgsOf(t)
      cells == {o.Value.cell : o \in opts}
  IN [cl \in cells |-> ZeroOf((CHOOSE o \in opts : o.Value.cell = cl).Value.typ)]

MwIds == {"mw1", "mw2", "mw3"}

\* ------------------------------------------------------------- state
VARIABLES
  tree,    \* node -> Command
  env,     \* the process environment: variable name -> value
  inv,     \* the Invocation: Command, Flags, Args
  state,   \* runState: allArgs, commandDepth, flagParseErr
  vals,    \* the contents of the cells the option Values point to
  log,     \* the calls of middlewares and handlers, in order
  stdout,  \* what was printed: help pages and listings
  stderr,  \* deprecation warnings
  err,     \* the error Run returned ("nil" for none, "panic" for a panic)
  pc,      \* the position of Run
  loc,     \* locals of run that live across its steps
  input,   \* the arguments Run was called with
  config,  \* the configuration the command tree was built from
  mws      \* the middleware list handed to Chain

vars == <<tree, env, inv, state, vals, log, stdout, stderr, err, pc, loc, input, config, mws>>

Cur ==
  [tree |-> tree, env |-> env, inv |-> inv, state |-> state, vals |-> vals, log |-> log,
   stdout |-> stdout, stderr |-> stderr, err |-> err, pc |-> pc, loc |-> loc]

Load(m) ==
  /\ tree' = m.tree
  /\ env' = m.env
  /\ inv' = m.inv
  /\ state' = m.state
  /\ vals' = m.vals
  /\ log' = m.log
  /\ stdout' = m.stdout
  /\ stderr' = m.stderr
  /\ err' = m.err
  /\ pc' = m.pc
  /\ loc' = m.loc
  /\ UNCHANGED <<input, config, mws>>

\* the children of the root whose Name or one of whose Aliases is name
EntryPoints(t, name) ==
  {n \in {t["r"].Children[i] : i \in 1..Len(t["r"].Children)} :
     \/ Name(t[n]) = <<name>>
     \/ \E i \in 1..Len(t[n].Aliases) : t[n].Aliases[i] = name}

\* Invocation.WithArgv0(name): a root child named by the entry point is
\* treated as the first explicit argument, unless the first explicit
\* argument names a different root child
WithArgv0(t, name, args) ==
  IF /\ name # ""
     /\ EntryPoints(t, name) # {}
     /\ ~(/\ Len(args) > 0 /\ Len(args[1]) = 1
          /\ EntryPoints(t, args[1][1]) \ EntryPoints(t, name) # {})
    THEN <<Name(t[CHOOSE n \in EntryPoints(t, name) : TRUE])>> \o args
  ELSE args

\* Command.Invoke(args...).WithArgv0(name): the state before Run
Invoke(cfg, args) ==
  [tree |-> Tree(cfg), env |-> cfg.env,
   inv |-> [Command |-> "r", Flags |-> NewFlagSet,
            Args |-> WithArgv0(Tree(cfg), cfg.argv0, args)],
   state |-> [allArgs |-> <<>>, commandDepth |-> 0, flagParseErr |-> "nil"],
   vals |-> ZeroVals(Tree(cfg)), log |-> <<>>, stdout |-> <<>>, stderr |-> <<>>,
   err |-> "nil", pc |-> "start",
   loc |-> [parent |-> "r", parsedArgs |-> <<>>, isHelpRequested |-> FALSE, missing |-> <<>>,
            argErr |-> Empty]]

InitOf(m, cfg, args, ms) ==
  /\ tree = m.tree
  /\ env = m.env
  /\ inv = m.inv
  /\ state = m.state
  /\ vals = m.vals
  /\ log = m.log
  /\ stdout = m.stdout
  /\ stderr = m.stderr
  /\ err = m.err
  /\ pc = m.pc
  /\ loc = m.loc
  /\ input = args
  /\ config = cfg
  /\ mws = ms

Init == \E cfg \in Configs : \E args \in Inputs(cfg) : InitOf(Invoke(cfg, args), cfg, args, <<>>)

RunInit == pc = "start" /\ Load(runInit(Cur))

RunResolve == pc = "run" /\ Load(runResolve(Cur))

RunCollect == pc = "collect" /\ Load(runCollect(Cur))

RunValidate == pc = "validate" /\ Load(runValidate(Cur))

RunBind == pc = "bind" /\ Load(runBind(Cur))

RunDispatch == pc = "dispatch" /\ Load(runDispatch(Cur))

Next == RunInit \/ RunResolve \/ RunCollect \/ RunValidate \/ RunBind \/ RunDispatch

Spec == Init /\ [][Next]_vars

\* ------------------------------------------------------------- help
\* The runs the help renderer is checked on: one node at a time without
\* Handler, other's Use with and without a placeholder.
ConfigsHelp ==
  {[noH |-> n, ph |-> b] @@ (CHOOSE cfg \in ConfigsA : cfg.mwP) :
     n \in {NoCmd, "r", "o", "g"}, b \in BOOLEAN}

TokensHelp ==
  {W("other"), W("x"), W("grand"), Colon("parent", "child"), Long("help"), <<"-", "h">>}

InitHelp ==
  \E cfg \in ConfigsHelp : \E args \in SeqsUpTo(TokensHelp, MaxArgs) :
    InitOf(Invoke(cfg, args), cfg, args, <<>>)

SpecHelp == InitHelp /\ [][Next]_vars

\* ------------------------------------------------------------- listings, Args
\* The runs the listings and the Args are checked on: other has the required
\* option token, or not, and declares, or not, the Args a (required) and b.
OtherArgs(d) ==
  << Arg("a", TRUE, Empty, ValueOf(<<"o", "a">>, "string")),
     Arg("b", FALSE, d, ValueOf(<<"o", "b">>, "string")) >>

ConfigsList ==
  {[args |-> as] @@ cfg :
     as \in {<<>>, OtherArgs(Empty), OtherArgs(<<"dflt">>)},
     cfg \in {CHOOSE c \in ConfigsB : ~c.req /\ c.def = Empty /\ c.envs = <<>>,
              CHOOSE c \in ConfigsA : c.mwP}}

TokensList ==
  {W("other"), W("x"), <<"b", "=", "1">>, LongEq("token", "t"), Long("list-commands"),
   Long("list-flags"), Long("help")}

InitList ==
  \E cfg \in ConfigsList : \E args \in SeqsUpTo(TokensList, MaxArgs) :
    InitOf(Invoke(cfg, args), cfg, args, <<>>)

SpecList == InitList /\ [][Next]_vars

\* ------------------------------------------------------------- aliases, entry points
\* The runs aliases and entry-point names are checked on: other has the
\* alias oth; the program is started under no name, under other's Name,
\* under other's alias, or under a name no command has.
ConfigsEntry ==
  {[aliases |-> <<"oth">>, argv0 |-> a] @@ (CHOOSE cfg \in ConfigsA : cfg.mwP) :
     a \in {"", "other", "oth", "zzz"}}

TokensEntry == {W("other"), W("oth"), W("parent"), W("x"), W("y"), Long("debug")}

InitEntry ==
  \E cfg \in ConfigsEntry : \E args \in SeqsUpTo(TokensEntry, MaxArgs) :
    InitOf(Invoke(cfg, args), cfg, args, <<>>)

SpecEntry == InitEntry /\ [][Next]_vars

\* ------------------------------------------------------------- configuration errors
\* The runs configuration errors are checked on: one node at a time with an
\* option that has neither Flag nor Envs, a duplicate of other under the
\* root or of grand under child, or neither.
ConfigsBroken ==
  {[badOpt |-> b, dup |-> d] @@ (CHOOSE cfg \in ConfigsA : cfg.mwP) :
     b \in {NoCmd, "r", "p", "c", "g", "o"}, d \in {NoCmd, "r", "c"}}

TokensBroken == {W("other"), W("parent"), W("child"), W("grand"), W("x"), Long("debug")}

InitBroken ==
  \E cfg \in ConfigsBroken : \E args \in SeqsUpTo(TokensBroken, MaxArgs) :
    InitOf(Invoke(cfg, args), cfg, args, <<>>)

SpecBroken == InitBroken /\ [][Next]_vars

\* ------------------------------------------------------------- deprecation
\* The runs the deprecation warning is checked on: one deprecated node.
ConfigsDeprecated ==
  {[dep |-> n] @@ (CHOOSE cfg \in ConfigsA : cfg.mwP) : n \in {"r", "p", "c", "g", "o"}}

TokensDeprecated ==
  {W("other"), W("parent"), W("child"), W("grand"), Colon("parent", "child"), Long("debug")}

InitDeprecated ==
  \E cfg \in ConfigsDeprecated : \E args \in SeqsUpTo(TokensDeprecated, MaxArgs) :
    InitOf(Invoke(cfg, args), cfg, args, <<>>)

SpecDeprecated == InitDeprecated /\ [][Next]_vars

\* ------------------------------------------------------------- token formats
\* The runs the classification of tokens is checked on: other declares the
\* Args a and b; the tokens b=1, {"b":"j"} and {"b":"j=k"}.
ConfigsBind == {[args |-> OtherArgs(Empty)] @@ (CHOOSE c \in ConfigsA : c.mwP)}

TokensBind ==
  {W("other"), W("x"), <<"b", "=", "1">>, <<"{", "b", ":", "j", "}">>,
   <<"{", "b", ":", "j", "=", "k", "}">>}

InitBind ==
  \E cfg \in ConfigsBind : \E args \in SeqsUpTo(TokensBind, MaxArgs) :
    InitOf(Invoke(cfg, args), cfg, args, <<>>)

SpecBind == InitBind /\ [][Next]_vars

\* ------------------------------------------------------------- repeated flags
\* The runs repeated parsing is checked on: the global stringArray flag
\* env-files given up to MaxArgs times, and the string flag name.
ConfigsArray == {CHOOSE c \in ConfigsA : c.mwP}

TokensArray ==
  {W("parent"), W("child"), W("other"), LongEq("env-files", "f"), LongEq("env-files", "g"),
   LongEq("name", "n")}

InitArray ==
  \E cfg \in ConfigsArray : \E args \in SeqsUpTo(TokensArray, MaxArgs) :
    InitOf(Invoke(cfg, args), cfg, args, <<>>)

SpecArray == InitArray /\ [][Next]_vars

\* Run is one sequential call: a step of it is taken until it has returned.
\* This is WF_vars(Next) with ENABLED <<Next>>_vars written as pc # "done".
SpecArrayFair == SpecArray /\ ([]<>(pc = "done") \/ []<><<Next>>_vars)

\* ------------------------------------------------------------- Chain alone
ChainConfig == CHOOSE cfg \in ConfigsA : cfg.mwP

InitChain ==
  \E ms \in SeqsUpTo(MwIds, MaxChain) :
    InitOf([Invoke(ChainConfig, <<>>) EXCEPT !.pc = "chain"], ChainConfig, <<>>, ms)

\* Chain(mw1, ..., mwn)(h) is called
ChainInvoke ==
  /\ pc = "chain"
  /\ log' = Call(ApplyMw(Chain([i \in 1..Len(mws) |-> Mw(mws[i])]), HandlerOf("h")))
  /\ pc' = "chained"
  /\ UNCHANGED <<tree, env, inv, state, vals, stdout, stderr, err, loc, input, config, mws>>

NextChain == ChainInvoke

SpecChain == InitChain /\ [][NextChain]_vars

\* ------------------------------------------------------------- RequireRangeArgs alone
\* RequireRangeArgs(start, end)(next) called on invocation i of tree t:
\* the error returned and whether next was called
RequireRangeArgs(start, end, t, i) ==
  IF start < 0 THEN [err |-> "panic", next |-> FALSE]
  ELSE IF start = end /\ Len(i.Args) # start
    THEN IF start = 0
           THEN IF Len(t[i.Command].Children) > 0
                  THEN [err |-> "unrecognized subcommand", next |-> FALSE]
                ELSE [err |-> "wanted no args", next |-> FALSE]
         ELSE [err |-> "wanted args", next |-> FALSE]
  ELSE IF start > 0 /\ end = -1
    THEN IF Len(i.Args) < start THEN [err |-> "wanted at least", next |-> FALSE]
         ELSE [err |-> "nil", next |-> TRUE]
  ELSE IF start > end THEN [err |-> "panic", next |-> FALSE]
  ELSE IF Len(i.Args) < start \/ Len(i.Args) > end
    THEN [err |-> "wanted between", next |-> FALSE]
  ELSE [err |-> "nil", next |-> TRUE]

\* RequireNArgs(want)
RequireNArgs(want, t, i) == RequireRangeArgs(want, want, t, i)

\* start and end, whether the middleware is built by RequireNArgs(start), and
\* the command it is called on: other has no children, parent has one
ConfigsRange ==
  {[start |-> s, end |-> e, exact |-> x, on |-> c] @@ ChainConfig :
     s \in -1..MaxRange, e \in -1..MaxRange, x \in BOOLEAN, c \in {"o", "p"}}

InitRange ==
  \E cfg \in {c \in ConfigsRange : c.exact => c.end = c.start} :
    \E args \in SeqsUpTo({W("x")}, MaxArgs) :
      InitOf([Invoke(cfg, <<>>) EXCEPT !.pc = "range", !.inv.Command = cfg.on, !.inv.Args = args],
             cfg, args, <<>>)

RangeResult ==
  IF config.exact THEN RequireNArgs(config.start, tree, inv)
  ELSE RequireRangeArgs(config.start, config.end, tree, inv)

\* the middleware, wrapped around the handler of the command, is called
RangeInvoke ==
  /\ pc = "range"
  /\ log' = IF RangeResult.next THEN Call(HandlerOf(inv.Command)) ELSE <<>>
  /\ err' = RangeResult.err
  /\ pc' = "ranged"
  /\ UNCHANGED <<tree, env, inv, state, vals, stdout, stderr, loc, input, config, mws>>

NextRange == RangeInvoke

SpecRange == InitRange /\ [][NextRange]_vars

\* ------------------------------------------------------------- ParseFormArgs alone
MaxForm == 3

Quotes == {"'", "\""}

\* strings.TrimSpace on a string of one-character atoms
TrimSpace(s) ==
  LET ns == {i \in 1..Len(s) : s[i] # " "} IN
  IF ns = {} THEN Empty
  ELSE SubSeq(s, CHOOSE i \in ns : \A j \in ns : i <= j, CHOOSE i \in ns : \A j \in ns : j <= i)

\* trimQuotes: one pair of surrounding quotes of the same kind is removed
trimQuotes(s) ==
  LET t == TrimSpace(s) IN
  IF Len(t) >= 2 /\ t[1] \in Quotes /\ t[Len(t)] = t[1] THEN SubSeq(t, 2, Len(t) - 1)
  ELSE t

\* values[key] = append(values[key], value)
AppendValue(values, key, value) ==
  IF key \in DOMAIN values THEN [values EXCEPT ![key] = Append(@, value)]
  ELSE values @@ (key :> <<value>>)

\* strings.SplitN(part, "=", 2) of a part that contains '=', and the append
\* under a key that is not empty
AppendPair(values, part) ==
  LET i == IndexOf(part, "=")
      key == TrimSpace(SubSeq(part, 1, i - 1))
      value == trimQuotes(TrimSpace(SubSeq(part, i + 1, Len(part))))
  IN IF key # Empty THEN AppendValue(values, key, value) ELSE values

RECURSIVE FormScan(_, _, _, _, _, _, _)
\* the loop of ParseFormArgs; i and start count from 1
FormScan(form, i, start, inQuotes, quoteChar, seenEquals, values) ==
  IF i > Len(form)
    THEN IF i > start /\ TrimSpace(SubSeq(form, start, i - 1)) # Empty
           THEN IF Contains(TrimSpace(SubSeq(form, start, i - 1)), "=")
                  THEN AppendPair(values, TrimSpace(SubSeq(form, start, i - 1)))
                ELSE AppendValue(values, Empty, TrimSpace(SubSeq(form, start, i - 1)))
         ELSE values
  ELSE IF form[i] \in Quotes
    THEN IF ~inQuotes THEN FormScan(form, i + 1, start, TRUE, form[i], seenEquals, values)
         ELSE IF form[i] = quoteChar
           THEN FormScan(form, i + 1, start, FALSE, "", seenEquals, values)
         ELSE FormScan(form, i + 1, start, inQuotes, quoteChar, seenEquals, values)
  ELSE IF form[i] = "=" /\ ~inQuotes
    THEN FormScan(form, i + 1, start, inQuotes, quoteChar, TRUE, values)
  ELSE IF form[i] = " " /\ ~inQuotes /\ seenEquals
    THEN FormScan(form, i + 1, i + 1, inQuotes, quoteChar, FALSE,
                  IF i > start /\ Contains(SubSeq(form, start, i - 1), "=")
                    THEN AppendPair(values, SubSeq(form, start, i - 1))
                  ELSE values)
  ELSE FormScan(form, i + 1, start, inQuotes, quoteChar, seenEquals, values)

ParseFormArgs(form) == FormScan(form, 1, 1, FALSE, "", FALSE, <<>>)

\* the segments a form is written from: x, k=v, k='v w' and j="a=b"
FormSegments ==
  {<<"x">>, <<"k", "=", "v">>, <<"k", "=", "'", "v", " ", "w", "'">>,
   <<"j", "=", "\"", "a", "=", "b", "\"">>}

\* ParseFormArgs is about to be called on the segments joined by one space
InitForm ==
  \E segs \in SeqsUpTo(FormSegments, MaxForm) :
    InitOf([Invoke(ChainConfig, <<>>) EXCEPT !.pc = "form"], ChainConfig, segs, <<>>)

\* values, _ := ParseFormArgs(form)
FormInvoke ==
  /\ pc = "form"
  /\ vals' = ParseFormArgs(Join(input, " "))
  /\ pc' = "formed"
  /\ UNCHANGED <<tree, env, inv, state, log, stdout, stderr, err, loc, input, config, mws>>

NextForm == FormInvoke

SpecForm == InitForm /\ [][NextForm]_vars

\* ------------------------------------------------------------- properties
HandlerRan == \E i \in 1..Len(log) : log[i][1] = "handler"

\* the log of an onion: ids before in order, the handler of node c, ids after reversed
Onion(ids, c) ==
  [i \in 1..(2 * Len(ids) + 1) |->
     IF i <= Len(ids) THEN <<ids[i], "before">>
     ELSE IF i = Len(ids) + 1 THEN <<"handler", c>>
     ELSE <<ids[2 * Len(ids) + 2 - i], "after">>]

\* C1: Chain(mw1, ..., mwn)(h) runs the before parts in the order mw1..mwn,
\* then h exactly once, then the after parts in the order mwn..mw1.
ChainOnionOrder == pc = "chained" => log = Onion(mws, "h")

ChainOnionWitness ==
  /\ pc = "chained"
  /\ mws = <<"mw1", "mw2">>
  /\ log = << <<"mw1", "before">>, <<"mw2", "before">>, <<"handler", "h">>,
              <<"mw2", "after">>, <<"mw1", "after">> >>

\* the parent of node c by the Children lists of the tree as constructed
BuiltParent(c) ==
  LET t == Tree(config)
      ps == {n \in Nodes : \E i \in 1..Len(t[n].Children) : t[n].Children[i] = c}
  IN IF ps = {} THEN NoCmd ELSE CHOOSE n \in ps : TRUE

RECURSIVE BuiltPath(_)
\* the nodes from the root down to c
BuiltPath(c) == IF c = NoCmd THEN <<>> ELSE Append(BuiltPath(BuiltParent(c)), c)

\* the middleware ids a node was constructed with, in the order given
BuiltMiddleware(c) ==
  CASE c = "r" -> <<"mw-app">>
    [] c = "p" -> IF config.mwP THEN <<"mw-parent">> ELSE <<>>
    [] c = "c" -> <<"mw-child1", "mw-child2">>
    [] c = "g" -> <<"mw-grand">>
    [] c = "o" -> <<"mw-other">>

RECURSIVE PathMiddleware(_)
PathMiddleware(path) ==
  IF Len(path) = 0 THEN <<>> ELSE BuiltMiddleware(Head(path)) \o PathMiddleware(Tail(path))

\* C2: when Run dispatches to the handler of the resolved command, the
\* middlewares of the nodes from the root to that command wrap it: before
\* parts root to leaf, the handler once, after parts leaf to root, each
\* middleware once, whatever syntax reached the command.
MiddlewareRootToLeaf ==
  (pc = "done" /\ HandlerRan) => log = Onion(PathMiddleware(BuiltPath(inv.Command)), inv.Command)

MiddlewareRootToLeafWitness ==
  /\ pc = "done"
  /\ input = <<Long("debug"), W("parent"), W("child")>>
  /\ config.mwP
  /\ log = << <<"mw-app", "before">>, <<"mw-parent", "before">>, <<"mw-child1", "before">>,
              <<"mw-child2", "before">>, <<"handler", "c">>, <<"mw-child2", "after">>,
              <<"mw-child1", "after">>, <<"mw-parent", "after">>, <<"mw-app", "after">> >>

\* C3: if required-option validation fails, Run returns a non-nil error and
\* no middleware and no handler of any command has been invoked.
ValidationBlocksDispatch ==
  Len(loc.missing) > 0 => (pc = "done" /\ err # "nil" /\ log = <<>>)

ValidationBlocksDispatchWitness ==
  /\ pc = "done"
  /\ Len(loc.missing) > 0
  /\ err = "missing values for the required flags"
  /\ log = <<>>

\* a Required option of the resolved command with no source of a value
Unsourced(opt) ==
  /\ opt.Required
  /\ ~(opt.Flag \in DOMAIN inv.Flags /\ inv.Flags[opt.Flag].Changed)
  /\ opt.Default = Empty
  /\ opt.Envs = <<>>

UnsourcedOptions ==
  {i \in 1..Len(tree[inv.Command].Options) : Unsourced(tree[inv.Command].Options[i])}

BoundOptions ==
  {opt \in {tree[inv.Command].Options[i] : i \in 1..Len(tree[inv.Command].Options)}
             \cup {tree["r"].Options[i] : i \in 1..Len(tree["r"].Options)} :
     opt.Flag # "" /\ opt.Value # NilValue}

\* the flag of opt appears on the command line, in long or short form
Supplied(opt) ==
  \E i \in 1..Len(input) :
    \/ Len(input[i]) >= 3 /\ SubSeq(input[i], 1, 3) = Long(opt.Flag)
    \/ opt.Shorthand # "" /\ Len(input[i]) >= 2 /\ input[i][1] = "-"
         /\ input[i][2] = opt.Shorthand

EnvSet(opt) == \E i \in 1..Len(opt.Envs) : env[opt.Envs[i]] # Empty

\* the first entry of Envs whose variable is non-empty
FirstEnv(opt) ==
  opt.Envs[CHOOSE i \in 1..Len(opt.Envs) :
             /\ env[opt.Envs[i]] # Empty
             /\ \A j \in 1..(i - 1) : env[opt.Envs[j]] = Empty]

Bound(opt) == vals[opt.Value.cell]

\* the effect of Set(raw) on the fresh Value of opt
SetEffect(opt, raw) == SetValue(opt.Value.typ, ZeroOf(opt.Value.typ), raw).val

\* C5: an option with a non-empty Default D, not supplied on the command
\* line and with none of its Envs set, is bound to the effect of Set(D)
\* when the handler has run.
DefaultApplied ==
  (pc = "done" /\ HandlerRan) =>
    \A opt \in BoundOptions :
      (opt.Default # Empty /\ ~Supplied(opt) /\ ~EnvSet(opt))
        => Bound(opt) = SetEffect(opt, opt.Default)

\* C6: the first environment variable of Envs that is non-empty is Set on
\* the Value and, the Set accepted, the flag marked changed; no later entry
\* determines the value.
FirstNonEmptyEnvWins ==
  (pc = "done" /\ HandlerRan) =>
    \A opt \in BoundOptions :
      (EnvSet(opt) /\ ~Supplied(opt))
        => /\ Bound(opt) = SetEffect(opt, env[FirstEnv(opt)])
           /\ SetValue(opt.Value.typ, ZeroOf(opt.Value.typ), env[FirstEnv(opt)]).ok
                => inv.Flags[opt.Flag].Changed

\* the positions of the --name tokens
NameTokens == {i \in 1..Len(input) : input[i] = Long("name")}

\* the positions of the --flag=value tokens of opt
CliTokens(opt) ==
  {i \in 1..Len(input) : Len(input[i]) > 4 /\ SubSeq(input[i], 1, 4) = <<"-", "-", opt.Flag, "=">>}

\* the value of the last --flag=value token of opt
CliValue(opt) ==
  LET i == CHOOSE k \in CliTokens(opt) : \A j \in CliTokens(opt) : j <= k
  IN SubSeq(input[i], 5, Len(input[i]))

\* C7: Default < environment < command line: with a --flag=value token the
\* bound value is the token's, without one the environment's, with neither
\* the Default's, for options of the resolved command and of the root
\* (on command lines where no --name takes the next token as its value).
SourcePriority ==
  (pc = "done" /\ HandlerRan /\ NameTokens = {}) =>
    \A opt \in BoundOptions :
      IF CliTokens(opt) # {} THEN Bound(opt) = SetEffect(opt, CliValue(opt))
      ELSE IF Supplied(opt) THEN TRUE
      ELSE IF EnvSet(opt) THEN Bound(opt) = SetEffect(opt, env[FirstEnv(opt)])
      ELSE opt.Default # Empty => Bound(opt) = SetEffect(opt, opt.Default)

\* C8: [parent, child, --parent-flag, pvalue, --child-flag, cvalue] returns
\* no error, runs the handler of child, and binds pvalue and cvalue.
AncestorFlagsRecognized ==
  (pc = "done" /\ input = <<W("parent"), W("child"), Long("parent-flag"), W("pvalue"),
                            Long("child-flag"), W("cvalue")>>) =>
    /\ err = "nil"
    /\ \E i \in 1..Len(log) : log[i] = <<"handler", "c">>
    /\ vals[<<"p", "parent-flag">>] = W("pvalue")
    /\ vals[<<"c", "child-flag">>] = W("cvalue")

\* the token after the one --name token
NameValue == input[(CHOOSE i \in NameTokens : TRUE) + 1]

\* C9: a run resolving to a command that redeclares the root's flag name has
\* one flag name, the command's; --name v is Set on the command's Value and
\* not on the root's; a run resolving to the root binds v to the root's Value.
SameNameFlagOverride ==
  (pc = "done" /\ HandlerRan /\ Cardinality(NameTokens) = 1) =>
    IF inv.Command \in {"c", "o"}
      THEN /\ inv.Flags["name"].Value.cell = <<inv.Command, "name">>
           /\ vals[<<inv.Command, "name">>] = NameValue
           /\ vals[<<"r", "name">>] = Empty
    ELSE inv.Command = "r" => vals[<<"r", "name">>] = NameValue

\* one step of Run on a machine state
runStep(m) ==
  CASE m.pc = "start" -> runInit(m)
    [] m.pc = "run" -> runResolve(m)
    [] m.pc = "collect" -> runCollect(m)
    [] m.pc = "validate" -> runValidate(m)
    [] m.pc = "bind" -> runBind(m)
    [] m.pc = "dispatch" -> runDispatch(m)
    [] OTHER -> m

RECURSIVE RunToEnd(_)
RunToEnd(m) == IF m.pc = "done" THEN m ELSE RunToEnd(runStep(m))

\* the input with its first two tokens parent, child written parent:child
ColonForm == <<Colon("parent", "child")>> \o SubSeq(input, 3, Len(input))

\* the outcome of Run: inv.Args is bound only by a run that returns nil
Outcome(m) ==
  [err |-> m.err, Command |-> m.inv.Command, vals |-> m.vals,
   Args |-> IF m.err = "nil" THEN m.inv.Args ELSE <<>>]

\* C10: Run with "parent:child" and a suffix and Run with "parent", "child"
\* and the same suffix end in the same command, the same bound flag values
\* and the same Args.
ColonSpaceEquivalent ==
  (pc = "done" /\ Len(input) >= 2 /\ input[1] = W("parent") /\ input[2] = W("child")) =>
    Outcome(RunToEnd(Invoke(config, ColonForm))) = Outcome(Cur)

\* ------------------------------------------------------------- help properties
\* the help flag is among the tokens of the command line
HelpGiven == \E i \in 1..Len(input) : input[i] \in {Long("help"), <<"-", "h">>}

\* the help page of the current command was written to Stdout
HelpPrinted == \E i \in 1..Len(stdout) : stdout[i] = <<"help", inv.Command>>

\* C11: when the resolved command has no Handler and the help flag was not
\* given, Run prints help; it does not panic, does not return without help
\* output, and calls no handler.
NilHandlerRoutesToHelp ==
  (pc = "done" /\ ~tree[inv.Command].Handler /\ ~HelpGiven)
    => (HelpPrinted /\ log = <<>> /\ err # "panic")

UnknownSubcommandExactly ==
  (pc = "done" /\ HelpPrinted)
    => (err = "unknown subcommand"
          <=> (Len(inv.Args) > 0 /\ ~usageWantsArgRe(tree[inv.Command].Use)))

\* ------------------------------------------------------------- listing properties
\* a listing flag is set
ListingRequested ==
  vals[GlobalCell("list-commands")] = TRUE \/ vals[GlobalCell("list-flags")] = TRUE

\* the only output is one listing
ListingPrinted ==
  Len(stdout) = 1 /\ stdout[1][1] = (IF vals[GlobalCell("list-commands")] = TRUE
                                       THEN "commands" ELSE "flags")

\* C14: when --list-commands or --list-flags is set, Run prints the listing
\* and returns nil; no middleware or handler runs, and a missing required
\* option or required Arg does not make the result an error.
ListingShortCircuits ==
  (pc = "done" /\ ListingRequested) => (ListingPrinted /\ err = "nil" /\ log = <<>>)

ListingWitness ==
  /\ pc = "done"
  /\ input = <<W("other"), Long("list-flags")>>
  /\ config.args = OtherArgs(Empty)
  /\ ~inv.Flags["token"].Changed
  /\ vals[<<"o", "a">>] = Empty
  /\ stdout = << <<"flags", "r">> >>
  /\ err = "nil"

\* ------------------------------------------------------------- alias properties
\* the input with its first token, an alias of other, replaced by other's Name
NameForm == <<W("other")>> \o Tail(input)

\* C15: a token equal to one of a child's Aliases resolves to that child as
\* its Name does: Run with the alias ends in the same command, the same
\* calls of middlewares and handler, the same values and the same Args.
AliasResolvesAsName ==
  (pc = "done" /\ config.argv0 = "" /\ Len(input) > 0 /\ input[1] = W("oth")) =>
    /\ Outcome(Cur) = Outcome(RunToEnd(Invoke(config, NameForm)))
    /\ log = RunToEnd(Invoke(config, NameForm)).log

\* no explicit argument names a child of the root
NoCommandNamed ==
  \A i \in 1..Len(input) : Len(input[i]) = 1 => EntryPoints(Tree(config), input[i][1]) = {}

\* the explicit arguments that are not flags
Positionals == SelectSeq(input, LAMBDA tok : ~HasPrefix(tok, "-"))

ConfigErrorsAbort ==
  (config.badOpt # NoCmd \/ config.dup # NoCmd) =>
    /\ pc \in {"start", "run", "done"}
    /\ inv.Command = "r" /\ state.commandDepth = 0
    /\ log = <<>> /\ stdout = <<>>
    /\ pc = "done" => err \in {"initializing command", "panic"}
    /\ (pc = "done" /\ config.badOpt # NoCmd) => err = "initializing command"

ConfigErrorsWitness ==
  /\ pc = "done"
  /\ config.badOpt = "g" /\ config.dup = NoCmd
  /\ input = <<W("other")>>
  /\ err = "initializing command"

\* ------------------------------------------------------------- deprecation properties
\* the deprecation warnings written to Stderr
DeprecationWarnings == SelectSeq(stderr, LAMBDA e : e[1] = "deprecated")

\* C18: when the command Run resolves to, or an ancestor on the way to it,
\* has a Deprecated message, Stderr holds exactly one warning for it, however
\* the command was named on the command line.
DeprecatedWarnedOnce ==
  (/\ pc = "done" /\ err # "panic"
   /\ \E i \in 1..Len(BuiltPath(inv.Command)) : BuiltPath(inv.Command)[i] = config.dep)
    => DeprecationWarnings = << <<"deprecated", FullName(tree, config.dep)>> >>

\* ------------------------------------------------------------- Arg properties
\* the declared Args of other that are required, have no Default and hold no value
UnboundRequired ==
  {i \in 1..Len(config.args) :
     /\ config.args[i].Required /\ config.args[i].Default = Empty
     /\ vals[config.args[i].Value.cell] = Empty}

\* C19: when the resolved command declares Args, help was not requested and
\* Run got as far as binding them, a required Arg without Default that no
\* token gave a value makes Run fail with an error naming it, and the
\* handler is not invoked.
MissingRequiredArgFails ==
  (/\ pc = "done" /\ inv.Command = "o" /\ Len(config.args) > 0
   /\ ~loc.isHelpRequested /\ ~ListingRequested /\ Len(loc.missing) = 0
   /\ state.flagParseErr = "nil" /\ UnboundRequired # {})
    => /\ err = "parsing args"
       /\ \E i \in UnboundRequired : loc.argErr = <<config.args[i].Name>>
       /\ ~HandlerRan

\* ------------------------------------------------------------- RequireRangeArgs properties
\* the number of arguments is within start..end, or at least start when end is -1
InRange ==
  \/ config.start <= Len(inv.Args) /\ Len(inv.Args) <= config.end
  \/ config.end = -1 /\ Len(inv.Args) >= config.start

\* C20: for start >= 0 and an end that is -1 or at least start, the
\* middleware calls next exactly when the number of arguments is in range,
\* otherwise it returns an error without calling next, RequireNArgs(n)
\* included; with end = -1 it never panics.
RangeArgsAccepts ==
  (pc = "ranged" /\ config.start >= 0 /\ (config.end = -1 \/ config.start <= config.end)) =>
    /\ HandlerRan <=> InRange
    /\ InRange => err = "nil"
    /\ ~InRange => err \notin {"nil", "panic"}
    /\ config.end = -1 => err # "panic"

\* ------------------------------------------------------------- a second Run
\* Invoke(args...).Run() once more on the same tree and the same variables
SecondRun == RunToEnd([Invoke(config, input) EXCEPT !.tree = tree, !.vals = vals])

\* C21: a second Run on the same tree leaves the root's Options (the global
\* flags once), the parent pointers and the order of options and children
\* as the first Run left them, and ends as the first Run did.
InitIdempotent ==
  (pc = "done" /\ err = "nil") =>
    /\ SecondRun.tree["r"].Options = tree["r"].Options
    /\ \A n \in Nodes : /\ SecondRun.tree[n].parent = tree[n].parent
                         /\ SecondRun.tree[n].Children = tree[n].Children
    /\ SecondRun.err = err /\ SecondRun.inv.Command = inv.Command /\ SecondRun.log = log

\* ------------------------------------------------------------- resolver properties
\* the tokens before the first one that starts with '-' or contains '='
Eligible(args) ==
  SubSeq(args, 1,
         CHOOSE k \in 0..Len(args) :
           /\ \A i \in 1..k : args[i][1] # "-" /\ \A j \in 1..Len(args[i]) : args[i][j] # "="
           /\ k < Len(args) =>
                (args[k + 1][1] = "-" \/ \E j \in 1..Len(args[k + 1]) : args[k + 1][j] = "="))

\* the resolver step run is about to take, on the arguments xs
ResolverStep(xs) ==
  getExecCommand(tree, inv.Command, getCommands(tree, inv.Command, Empty).map, xs)

\* C22: in a resolver step the command and the consumed count depend only
\* on the tokens before the first flag or '=' token, consumed is at most the
\* number of those tokens, and without such tokens the step returns the
\* current command and 0.
OnlyPrefixEligible ==
  pc = "run" =>
    /\ ResolverStep(state.allArgs) = ResolverStep(Eligible(state.allArgs))
    /\ ResolverStep(state.allArgs)[2] <= Len(Eligible(state.allArgs))
    /\ Len(Eligible(state.allArgs)) = 0 => ResolverStep(state.allArgs) = <<inv.Command, 0>>

OnlyPrefixEligibleWitness ==
  /\ pc = "run"
  /\ input = <<W("parent"), Long("debug"), W("child")>>
  /\ inv.Command = "c"
  /\ state.allArgs = <<Long("debug"), W("child")>>
  /\ state.commandDepth = 1

\* no eligible token of xs names a child of node c, is a key of the lookup
\* table or is a colon path
NoEligibleMatch(c, xs) ==
  \A i \in 1..Len(Eligible(xs)) :
    /\ ChildNamed(tree, c, Eligible(xs)[i]) = NoCmd
    /\ Eligible(xs)[i] \notin DOMAIN getCommands(tree, c, Empty).map
    /\ ~Contains(Eligible(xs)[i], ":")

ValueFlags ==
  {Long(o.Flag) : o \in {q \in OptionsOf(Tree(config)) \cup GlobalOptions :
                           q.Flag # "" /\ q.Value.typ # "bool"}}

RECURSIVE NonOperands(_)
\* the tokens that are neither flags nor the operand of a value-taking flag
NonOperands(args) ==
  IF Len(args) = 0 THEN <<>>
  ELSE IF Head(args) \in ValueFlags
    THEN IF Len(args) = 1 THEN <<>> ELSE NonOperands(Tail(Tail(args)))
  ELSE IF HasPrefix(Head(args), "-") THEN NonOperands(Tail(args))
  ELSE <<Head(args)>> \o NonOperands(Tail(args))

RECURSIVE Segments(_)
\* the command names a list of tokens spells, colon paths taken apart
Segments(toks) ==
  IF Len(toks) = 0 THEN <<>> ELSE Split(Head(toks), ":") \o Segments(Tail(toks))

RECURSIVE IsSubsequence(_, _)
IsSubsequence(a, b) ==
  IF Len(a) = 0 THEN TRUE
  ELSE IF Len(b) = 0 THEN FALSE
  ELSE IF Head(a) = Head(b) THEN IsSubsequence(Tail(a), Tail(b))
  ELSE IsSubsequence(a, Tail(b))

\* the names of the commands Run has descended through, below the root
DescentNames ==
  [i \in 1..(Len(BuiltPath(inv.Command)) - 1) |->
     Name(Tree(config)[BuiltPath(inv.Command)[i + 1]])]

\* C24: the operand of a value-taking flag is never used as a subcommand
\* name: every command Run descends into is named, in order, by a token
\* that is neither a flag nor the operand of a flag.
OperandsNeverDescend == IsSubsequence(DescentNames, Segments(NonOperands(input)))

OperandsNeverDescendWitness ==
  /\ pc = "done"
  /\ input = <<W("parent"), Long("name"), W("child")>>
  /\ inv.Command = "p"
  /\ vals[<<"r", "name">>] = W("child")
  /\ inv.Args = <<>>
  /\ HandlerRan

\* the declared Args a key=value token among the remaining tokens names
NamedBy(tok) ==
  IF Contains(tok, "=") /\ ~HasPrefix(tok, "-")
    THEN {j \in 1..Len(config.args) : <<config.args[j].Name>> = ParseQueryArgs(tok)[1]}
  ELSE {}

\* the declared Args no token names, and the tokens that name no Arg, in order
Unnamed == SelectSeq([j \in 1..Len(config.args) |-> j],
                     LAMBDA j : \A k \in 1..Len(inv.Args) : j \notin NamedBy(inv.Args[k]))

Unmatched == SelectSeq(inv.Args, LAMBDA tok : NamedBy(tok) = {})

\* C25: when binding ends, an Arg named by a key=value token holds the
\* decoded value, and the tokens that name no Arg are bound to the other
\* declared Args in positional order.
NamedThenPositional ==
  (/\ pc = "done" /\ HandlerRan /\ inv.Command = "o" /\ Len(config.args) > 0) =>
    /\ \A k \in 1..Len(inv.Args) : \A j \in NamedBy(inv.Args[k]) :
         \E l \in 1..Len(inv.Args) :
           /\ j \in NamedBy(inv.Args[l])
           /\ vals[config.args[j].Value.cell] = ParseQueryArgs(inv.Args[l])[2]
    /\ \A r \in 1..Len(Unnamed) :
         r <= Len(Unmatched) => vals[config.args[Unnamed[r]].Value.cell] = Unmatched[r]

\* a token that starts with '{' and ends with '}', or with '[' and ']'
IsJSON(tok) ==
  \/ tok[1] = "{" /\ tok[Len(tok)] = "}"
  \/ tok[1] = "[" /\ tok[Len(tok)] = "]"

\* C26: a token shaped as JSON is decoded as JSON even when it contains '=',
\* and only a token not shaped as JSON that contains '=' is decoded as a
\* query: after other x <token>, with x bound to a, the Arg b named by the
\* token holds the value of the token's own format.
JSONBeforeQuery ==
  (/\ pc = "done" /\ HandlerRan /\ inv.Command = "o"
   /\ Len(inv.Args) = 2 /\ inv.Args[1] = W("x")) =>
    /\ (IsJSON(inv.Args[2]) /\ ParseJSONArgs(inv.Args[2])[1] = <<"b">>)
         => vals[<<"o", "b">>] = ParseJSONArgs(inv.Args[2])[2]
    /\ (~IsJSON(inv.Args[2]) /\ NamedBy(inv.Args[2]) = {2})
         => vals[<<"o", "b">>] = ParseQueryArgs(inv.Args[2])[2]

\* the '=' of a segment that stand outside quotes
EqOutside(seg) ==
  {i \in 1..Len(seg) : seg[i] = "=" /\ Cardinality({j \in 1..(i - 1) : seg[j] \in Quotes}) % 2 = 0}

\* the key of a segment: the text before its first '=' outside quotes, the
\* empty string when it has none
SegmentKey(seg) ==
  IF EqOutside(seg) = {} THEN Empty
  ELSE SubSeq(seg, 1, (CHOOSE i \in EqOutside(seg) : \A j \in EqOutside(seg) : i <= j) - 1)

\* the value of a segment: the text after that '=', or the whole segment,
\* without the quote characters
SegmentValue(seg) ==
  SelectSeq(SubSeq(seg, Len(SegmentKey(seg)) + (IF EqOutside(seg) = {} THEN 1 ELSE 2), Len(seg)),
            LAMBDA ch : ch \notin Quotes)

RECURSIVE FormValues(_, _)
\* every one of the first n segments appended under its key, in order
FormValues(segs, n) ==
  IF n = 0 THEN <<>>
  ELSE AppendValue(FormValues(segs, n - 1), SegmentKey(segs[n]), SegmentValue(segs[n]))

\* C27: ParseFormArgs appends the value of every key=value segment, without
\* its quotes, under key, and every segment without '=' under the empty key,
\* wherever the segment stands; an '=' inside quotes starts no pair.
FormSegmentsDecoded ==
  pc = "formed" => vals = FormValues(input, Len(input))

\* C28: when the help flag is set (and no listing flag, and the flags
\* parsed), Run prints help and returns no error of required-option
\* validation or Arg binding, the declared Args keep the values they had
\* before Run, and no handler runs, even if a required option or a required
\* Arg of the resolved command has no value.
HelpSkipsValidationAndBinding ==
  (/\ pc = "done" /\ vals[GlobalCell("help")] = TRUE
   /\ ~ListingRequested /\ err # "parsing flags") =>
    /\ HelpPrinted
    /\ err \notin {"missing values for the required flags", "parsing args"}
    /\ \A i \in 1..Len(config.args) :
         vals[config.args[i].Value.cell] = Invoke(config, input).vals[config.args[i].Value.cell]
    /\ ~HandlerRan

\* the argument list parsed once against the final flag set, starting from
\* the values the options had before Run
ParsedOnce == Parse(inv.Flags, Invoke(config, input).vals, input).vals

\* the values given to env-files on the command line, in order
SuppliedArray ==
  LET given == SelectSeq(input, LAMBDA tok : Len(tok) = 5 /\ tok[3] = "env-files")
  IN [i \in 1..Len(given) |-> <<given[i][5]>>]

\* C29: when the handler runs, every option holds the value that parsing the
\* argument list once against the final merged flag set produces; the
\* stringArray env-files given k times holds exactly those k elements in
\* order.
ReparseIdempotent ==
  (pc = "done" /\ HandlerRan) =>
    /\ \A cl \in DOMAIN ParsedOnce : vals[cl] = ParsedOnce[cl]
    /\ vals[GlobalCell("env-files")] = SuppliedArray

\* the number of tree levels between the root and the current command
Level == Len(BuiltPath(inv.Command)) - 1

\* the greatest Level of a node of the tree
TreeDepth ==
  CHOOSE d \in 0..Cardinality(Nodes) :
    /\ \E n \in Nodes : Len(BuiltPath(n)) - 1 = d
    /\ \A n \in Nodes : Len(BuiltPath(n)) - 1 <= d

\* a step of run that calls run again: commandDepth was below the number of
\* parsed positional tokens, grows by one, and the command of the new call
\* is one level below the command the caller had resolved
Recursion ==
  (pc = "run" /\ pc' = "run") =>
    /\ state.commandDepth < Len(loc'.parsedArgs)
    /\ state'.commandDepth = state.commandDepth + 1
    /\ BuiltParent(inv'.Command) = loc'.parent \/ BuiltParent(inv'.Command) \in
         {n \in Nodes : \E i \in 1..Len(BuiltPath(n)) : BuiltPath(n)[i] = loc'.parent}
    /\ Len(BuiltPath(inv'.Command)) > Len(BuiltPath(inv.Command))

\* C30: Run terminates: it reaches its return, and before that every step
\* changes the state; every recursive call of run goes down the tree and
\* increments commandDepth, which stays within both the depth of the tree
\* and the number of positional tokens of the argument list.
RunTerminates ==
  /\ <>(pc = "done")
  /\ [](pc # "done" => runStep(Cur) # Cur)
  /\ [](state.commandDepth <= Level /\ Level <= TreeDepth
        /\ state.commandDepth <= Len(Positionals))
  /\ [][Recursion]_vars

RunTerminatesWitness ==
  /\ pc = "done"
  /\ input = <<LongEq("name", "n"), W("parent"), W("child")>>
  /\ state.commandDepth = 2
  /\ inv.Command = "c"
  /\ HandlerRan
====
